---- MODULE Spec2Model ----
(***************************************************************************)
(* Model of src/streamlit_app.py: StevesAdvancedAnalyzer and the part of   *)
(* main() that drives it.  One analysis run is                             *)
(*   fetch_comprehensive_data -> merge_and_classify_data ->                *)
(*   analyze_steve_questions -> display_key_findings ->                    *)
(*   create_visualizations                                                 *)
(* Data frames are sequences of records, one record per row.  A float is a *)
(* record [nan, v]: returns are exact integers (percent) because every     *)
(* close of Closes divides 100 times every difference of closes.  A        *)
(* statistic that is a quotient or a square root is kept exact as a        *)
(* fraction [nan, num, den]; a standard deviation is the fraction under    *)
(* the square root, so comparisons are made on squares.                    *)
(***************************************************************************)
EXTENDS Integers, Sequences, FiniteSets, TLC

\* ---------------------------------------------------------------- bounds
\* closing prices the feed may deliver (daily and hourly)
Closes == {1, 2}
\* daily histories of up to MaxDailyBars bars are arbitrary
MaxDailyBars == 8
\* longer daily histories, up to MaxQuietBars bars, change price once
MaxQuietBars == 11
\* hourly histories with bars at any hour of HourSet hold up to MaxHourlyBars
\* bars, on the dates EdgeDates
MaxHourlyBars == 3
EdgeDates == {1, 2}
\* hours of day an hourly bar may carry: before, at and after the window
HourSet == {8, 9, 16, 17}
\* arbitrary hourly histories are paired with daily histories of at most
\* ShortDailyBars bars; longer daily histories with ThinHourly histories
ShortDailyBars == 3
\* hourly histories with bars at the hours TwoHourSet only hold up to
\* MaxTwoHourBars bars, on the dates HourlyDates, so that an hour has several
\* observations
MaxTwoHourBars == 5
HourlyDates == {1, 2, 3}
TwoHourSet == {9, 16}

\* ------------------------------------------------------ program constants
MarketOpenHour == 9
MarketCloseHour == 16

VARIABLES pc, error, daily_bars, hourly_bars, daily_data, hourly_data,
          market_hours, daily_std, results, shown

vars == <<pc, error, daily_bars, hourly_bars, daily_data, hourly_data,
          market_hours, daily_std, results, shown>>

\* ------------------------------------------------------------ float values
NaN == [nan |-> TRUE, v |-> 0]
Num(x) == [nan |-> FALSE, v |-> x]
NaNFrac == [nan |-> TRUE, num |-> 0, den |-> 1]
Frac(n, d) == [nan |-> FALSE, num |-> n, den |-> d]

\* None, and a data frame with the given rows
None == [none |-> TRUE, rows |-> <<>>]
DataFrame(rows) == [none |-> FALSE, rows |-> rows]

RECURSIVE SumSeq(_)
SumSeq(s) == IF s = <<>> THEN 0 ELSE Head(s) + SumSeq(Tail(s))

Squares(s) == [i \in 1..Len(s) |-> s[i] * s[i]]

Abs(x) == IF x < 0 THEN 0 - x ELSE x

Range(s) == {s[i] : i \in 1..Len(s)}

\* ------------------------------------------------------------ pandas helpers
\* Series.pct_change() * 100 on a column of closes: the first row is NaN
pct_change(closes) ==
  [i \in 1..Len(closes) |->
     IF i = 1 THEN NaN
     ELSE Num((100 * (closes[i] - closes[i - 1])) \div closes[i - 1])]

\* np.where(Daily_Return >= 0, 'UP', 'DOWN'): NaN >= 0 is False
Day_TypeFlat(r) ==
  IF r.nan THEN "DOWN" ELSE IF r.v > 0 THEN "UP" ELSE IF r.v = 0 THEN "FLAT" ELSE "DOWN"
Day_TypeLax(r) == IF r.nan THEN "DOWN" ELSE IF r.v > 0 THEN "UP" ELSE "DOWN"
Day_Type(r) == IF r.nan THEN "DOWN" ELSE IF r.v >= 0 THEN "UP" ELSE "DOWN"

\* Series.mean(): NaN on an empty series
mean(xs) == IF Len(xs) = 0 THEN NaNFrac ELSE Frac(SumSeq(xs), Len(xs))

\* Series.median(): NaN on an empty series, the middle value or the mean of
\* the two middle values otherwise
median(xs) ==
  IF Len(xs) = 0 THEN NaNFrac
  ELSE LET s == SortSeq(xs, LAMBDA a, b : a < b)
           n == Len(s)
       IN  IF n % 2 = 1 THEN Frac(s[(n + 1) \div 2], 1)
           ELSE Frac(s[n \div 2] + s[n \div 2 + 1], 2)

\* Series.std() (ddof = 1): sqrt(num / den) with
\* num = n * sum(x^2) - sum(x)^2 and den = n * (n - 1); NaN when n < 2
std(xs) ==
  LET n == Len(xs)
  IN  IF n < 2 THEN NaNFrac
      ELSE Frac(n * SumSeq(Squares(xs)) - SumSeq(xs) * SumSeq(xs), n * (n - 1))

\* a < b for two fractions with positive denominators
FracLess(a, b) == a.num * b.den < b.num * a.den

\* k * sigma < x  for x >= 0, sigma = sqrt(s.num / s.den); False on NaN
SigmaLess(k, s, x) == ~s.nan /\ k * k * s.num < x * x * s.den

\* x <= k * sigma; False on NaN
LeqSigma(x, k, s) == ~s.nan /\ x * x * s.den <= k * k * s.num

\* pd.cut(x, bins=[0, s, 2s, 3s, inf], labels=..., include_lowest=True), with
\* the default right=True.  pandas refuses bin edges that are not unique:
\* sigma = 0 and sigma = NaN both raise ValueError.
Labels == <<"0-1s", "1-2s", "2-3s", "3s+">>

BinEdgesUnique(s) == ~s.nan /\ s.num > 0

\* the label of x >= 0: the bins below x are counted (searchsorted, side left),
\* x on the lowest edge is moved into the first bin, and a value in no bin
\* is NaN
pd_cutLeftClosed(x, s) ==
  LET ids == Cardinality({k \in 0..3 : ~s.nan /\ k * k * s.num <= x * x * s.den})
  IN  IF ids = 0 THEN "NaN" ELSE Labels[ids]
pd_cut(x, s) ==
  LET ids == IF x = 0 THEN 1
             ELSE Cardinality({k \in 0..3 : SigmaLess(k, s, x)})
  IN  IF ids = 0 THEN "NaN" ELSE Labels[ids]

\* DataFrame.dropna() on the daily frame: rows without a return are dropped
dropna(rows) == SelectSeq(rows, LAMBDA r : ~r.Daily_Return.nan)

\* left.merge(right, on='Date', how='inner'): every hourly row is paired with
\* every daily row of its date, in the order of the hourly rows
RECURSIVE merge(_, _)
mergeLeft(hrows, drows) ==
  [i \in 1..Len(hrows) |->
     LET m == SelectSeq(drows, LAMBDA r : r.Date = hrows[i].Date)
     IN  [Date |-> hrows[i].Date, Hour |-> hrows[i].Hour,
          Close |-> hrows[i].Close, Hourly_Return |-> hrows[i].Hourly_Return,
          Day_Type |-> IF m = <<>> THEN "NaN" ELSE m[1].Day_Type,
          Daily_Return |-> IF m = <<>> THEN NaN ELSE m[1].Daily_Return]]
merge(hrows, drows) ==
  IF hrows = <<>> THEN <<>>
  ELSE LET h == Head(hrows)
           m == SelectSeq(drows, LAMBDA r : r.Date = h.Date)
       IN  [j \in 1..Len(m) |->
              [Date |-> h.Date, Hour |-> h.Hour, Close |-> h.Close,
               Hourly_Return |-> h.Hourly_Return,
               Day_Type |-> m[j].Day_Type,
               Daily_Return |-> m[j].Daily_Return]]
           \o merge(Tail(hrows), drows)

\* hourly_merged[(Hour >= 9) & (Hour <= 16)]
InMarketHoursOpen(r) == r.Hour > MarketOpenHour /\ r.Hour < MarketCloseHour
InMarketHours(r) == r.Hour >= MarketOpenHour /\ r.Hour <= MarketCloseHour

\* ------------------------------------------------------------------ inputs
\* what yf.download may return for the daily series: closes, bar i on date i
IsQuiet(cs) == Cardinality({i \in 2..Len(cs) : cs[i] # cs[i - 1]}) <= 1

DailyInputs ==
  UNION {[1..n -> Closes] : n \in 0..MaxDailyBars}
  \cup {cs \in UNION {[1..n -> Closes] : n \in (MaxDailyBars + 1)..MaxQuietBars} :
          IsQuiet(cs)}

\* what yf.download may return for the hourly series: bars in strictly
\* increasing order of (date, hour)
Slots == EdgeDates \X HourSet

SlotBefore(a, b) == a[1] < b[1] \/ (a[1] = b[1] /\ a[2] < b[2])

SlotSeqs ==
  {ss \in UNION {[1..n -> Slots] : n \in 0..MaxHourlyBars} :
     \A i \in 1..(Len(ss) - 1) : SlotBefore(ss[i], ss[i + 1])}

HourlyInputs ==
  UNION {{[i \in 1..Len(ss) |->
             [Date |-> ss[i][1], Hour |-> ss[i][2], Close |-> cs[i]]] :
          cs \in [1..Len(ss) -> Closes]} : ss \in SlotSeqs}

\* histories whose bars are all at the hours of TwoHourSet
TwoHourInputs ==
  UNION {{[i \in 1..Len(ss) |->
             [Date |-> ss[i][1], Hour |-> ss[i][2], Close |-> cs[i]]] :
          cs \in [1..Len(ss) -> Closes]} :
         ss \in {x \in UNION {[1..n -> HourlyDates \X TwoHourSet] :
                                n \in 0..MaxTwoHourBars} :
                  \A i \in 1..(Len(x) - 1) : SlotBefore(x[i], x[i + 1])}}

ThinHourly ==
  {h \in TwoHourInputs :
     \A i \in 1..Len(h) : h[i].Hour = MarketOpenHour /\ h[i].Close = 1}

\* one whole session: a bar at the hour before the open and at every hour
\* from the open to the close of one date, the price changing at most once
FullDayInputs ==
  {[i \in 1..(MarketCloseHour - MarketOpenHour + 2) |->
      [Date |-> d, Hour |-> MarketOpenHour + i - 2, Close |-> cs[i]]] :
   d \in HourlyDates,
   cs \in {x \in [1..(MarketCloseHour - MarketOpenHour + 2) -> Closes] : IsQuiet(x)}}

HourlyFor(d) ==
  IF Len(d) <= ShortDailyBars
  THEN HourlyInputs \cup TwoHourInputs \cup FullDayInputs
  ELSE ThinHourly

\* ------------------------------------------------------------------- state
NoResults == [none |-> TRUE]

Init ==
  /\ pc = "idle"
  /\ error = ""
  /\ daily_bars = <<>>
  /\ hourly_bars = <<>>
  /\ daily_data = None
  /\ hourly_data = None
  /\ market_hours = <<>>
  /\ daily_std = NaNFrac
  /\ results = NoResults
  /\ shown = <<>>

\* lines 56-59: the daily frame with its returns and day types, NaN rows dropped
DailyFrame(d) ==
  LET ret == pct_change(d)
  IN  dropna([i \in 1..Len(d) |->
                [Date |-> i, Close |-> d[i], Daily_Return |-> ret[i],
                 Day_Type |-> Day_Type(ret[i])]])

\* lines 87-89: the hourly frame with Hour, Date and Hourly_Return
HourlyFrame(h) ==
  LET ret == pct_change([i \in 1..Len(h) |-> h[i].Close])
  IN  [i \in 1..Len(h) |->
         [Date |-> h[i].Date, Hour |-> h[i].Hour, Close |-> h[i].Close,
          Hourly_Return |-> ret[i]]]

\* fetch_comprehensive_data returning (daily_data, hourly_data)
FetchReturn(d, h, dd, hd, msg) ==
  /\ pc' = "fetched"
  /\ daily_bars' = d
  /\ hourly_bars' = h
  /\ daily_data' = dd
  /\ hourly_data' = hd
  /\ error' = msg
  /\ UNCHANGED <<market_hours, daily_std, results, shown>>

FetchHourly(d, h) ==
  IF h = <<>>
  THEN FetchReturn(d, h, DataFrame(DailyFrame(d)), None, "Failed to fetch hourly data")
  ELSE FetchReturn(d, h, DataFrame(DailyFrame(d)), DataFrame(HourlyFrame(h)), "")

\* main() presses the button and calls fetch_comprehensive_data
fetch_comprehensive_data ==
  /\ pc = "idle"
  /\ \/ \* a download raises: the except branch returns (None, None)
        FetchReturn(<<>>, <<>>, None, None, "Data fetch error")
     \/ \E d \in DailyInputs :
          IF d = <<>>
          THEN FetchReturn(d, <<>>, None, None, "Failed to fetch daily data")
          ELSE \E first \in HourlyFor(d) :
                 IF first # <<>>
                 THEN FetchHourly(d, first)
                 ELSE \* the first hourly download is empty: one retry
                      \E retry \in HourlyFor(d) : FetchHourly(d, retry)

\* main() line 586: daily_data is None or hourly_data is None
FrameMissingDaily(dd, hd) == dd.none
FrameMissing(dd, hd) == dd.none \/ hd.none

\* main(): a missing frame ends the run before any analysis
FetchFailed ==
  /\ pc = "fetched"
  /\ FrameMissing(daily_data, hourly_data)
  /\ pc' = "failed"
  /\ UNCHANGED <<error, daily_bars, hourly_bars, daily_data, hourly_data,
                 market_hours, daily_std, results, shown>>

\* the columns daily_data['Daily_Return'] and data['Hourly_Return']
DailyReturns(rows) == [i \in 1..Len(rows) |-> rows[i].Daily_Return.v]

HourlyReturns(rows) == [i \in 1..Len(rows) |-> rows[i].Hourly_Return.v]

\* lines 104-119: join, drop rows without an hourly return, keep market hours
Joined(drows, hrows) ==
  SelectSeq(SelectSeq(merge(hrows, drows), LAMBDA r : ~r.Hourly_Return.nan),
            InMarketHours)

\* lines 125-131: the bucket of every joined row
ClassifiedByHourly(rows, s) ==
  [i \in 1..Len(rows) |->
     [Date |-> rows[i].Date, Hour |-> rows[i].Hour, Close |-> rows[i].Close,
      Hourly_Return |-> rows[i].Hourly_Return,
      Day_Type |-> rows[i].Day_Type, Daily_Return |-> rows[i].Daily_Return,
      Abs_Daily_Return |-> Abs(rows[i].Daily_Return.v),
      Std_Bucket |-> pd_cut(Abs(rows[i].Hourly_Return.v), s)]]
Classified(rows, s) ==
  [i \in 1..Len(rows) |->
     [Date |-> rows[i].Date, Hour |-> rows[i].Hour, Close |-> rows[i].Close,
      Hourly_Return |-> rows[i].Hourly_Return,
      Day_Type |-> rows[i].Day_Type, Daily_Return |-> rows[i].Daily_Return,
      Abs_Daily_Return |-> Abs(rows[i].Daily_Return.v),
      Std_Bucket |-> pd_cut(Abs(rows[i].Daily_Return.v), s)]]

merge_and_classify_data ==
  /\ pc = "fetched"
  /\ ~FrameMissing(daily_data, hourly_data)
  /\ LET s == std(DailyReturns(daily_data.rows))
     IN  IF BinEdgesUnique(s)
         THEN /\ market_hours' = Classified(Joined(daily_data.rows, hourly_data.rows), s)
              /\ daily_std' = s
              /\ pc' = "merged"
              /\ error' = error
         ELSE \* pd.cut raises ValueError, which main() does not catch
              /\ pc' = "merge_raised"
              /\ error' = "ValueError"
              /\ UNCHANGED <<market_hours, daily_std>>
  /\ UNCHANGED <<daily_bars, hourly_bars, daily_data, hourly_data, results, shown>>

\* ---------------------------------------------------------------- analysis
Hours == MarketOpenHour..MarketCloseHour

\* f"{hour}:00" for the hours of range(9, 17)
hour_str(h) ==
  CASE h = 9 -> "9:00" [] h = 10 -> "10:00" [] h = 11 -> "11:00"
    [] h = 12 -> "12:00" [] h = 13 -> "13:00" [] h = 14 -> "14:00"
    [] h = 15 -> "15:00" [] h = 16 -> "16:00"

HourOf(k) == CHOOSE h \in Hours : hour_str(h) = k

\* data[data[col] == value]
OfDayType(data, t) == SelectSeq(data, LAMBDA r : r.Day_Type = t)

OfHour(data, h) == SelectSeq(data, LAMBDA r : r.Hour = h)

OfBucket(data, b) == SelectSeq(data, LAMBDA r : r.Std_Bucket = b)

\* len(data['Date'].unique())
UniqueDates(data) == {data[i].Date : i \in 1..Len(data)}

\* (series > 0).mean() * 100
positive_pct(xs) ==
  IF Len(xs) = 0 THEN NaNFrac
  ELSE Frac(100 * Cardinality({i \in 1..Len(xs) : xs[i] > 0}), Len(xs))

\* a - b on fractions; NaN when either is NaN
FracMinus(a, b) ==
  IF a.nan \/ b.nan THEN NaNFrac
  ELSE Frac(a.num * b.den - b.num * a.den, a.den * b.den)

\* Series.min() and Series.max() of a non-empty series
MinOf(xs) == CHOOSE x \in Range(xs) : \A y \in Range(xs) : x <= y

MaxOf(xs) == CHOOSE x \in Range(xs) : \A y \in Range(xs) : x >= y

\* lines 162-192
_analyze_hourly_up_down(data) ==
  LET up_days == OfDayType(data, "UP")
      down_days == OfDayType(data, "DOWN")
  IN  [k \in {hour_str(h) : h \in Hours} |->
         LET up_hour == HourlyReturns(OfHour(up_days, HourOf(k)))
             down_hour == HourlyReturns(OfHour(down_days, HourOf(k)))
         IN  [up_day_avg |-> IF Len(up_hour) > 0 THEN mean(up_hour) ELSE NaNFrac,
              up_day_median |-> IF Len(up_hour) > 0 THEN median(up_hour) ELSE NaNFrac,
              up_day_std |-> IF Len(up_hour) > 0 THEN std(up_hour) ELSE NaNFrac,
              up_day_count |-> Len(up_hour),
              down_day_avg |-> IF Len(down_hour) > 0 THEN mean(down_hour) ELSE NaNFrac,
              down_day_median |-> IF Len(down_hour) > 0 THEN median(down_hour) ELSE NaNFrac,
              down_day_std |-> IF Len(down_hour) > 0 THEN std(down_hour) ELSE NaNFrac,
              down_day_count |-> Len(down_hour),
              difference |-> IF Len(up_hour) > 0 /\ Len(down_hour) > 0
                             THEN FracMinus(mean(up_hour), mean(down_hour))
                             ELSE NaNFrac,
              up_win_rate |-> IF Len(up_hour) > 0 THEN positive_pct(up_hour) ELSE NaNFrac,
              down_win_rate |-> IF Len(down_hour) > 0 THEN positive_pct(down_hour)
                                ELSE NaNFrac]]

\* lines 229-239: the hours of a bucket that have rows
hourly_breakdown(bucket_data) ==
  [k \in {hour_str(h) : h \in {x \in Hours : Len(OfHour(bucket_data, x)) > 0}} |->
     LET hour_data == OfHour(bucket_data, HourOf(k))
         up == HourlyReturns(OfDayType(hour_data, "UP"))
         down == HourlyReturns(OfDayType(hour_data, "DOWN"))
     IN  [avg_return |-> mean(HourlyReturns(hour_data)),
          median_return |-> median(HourlyReturns(hour_data)),
          count |-> Len(hour_data),
          positive_pct |-> positive_pct(HourlyReturns(hour_data)),
          up_day_avg |-> IF Len(up) > 0 THEN mean(up) ELSE NaNFrac,
          down_day_avg |-> IF Len(down) > 0 THEN mean(down) ELSE NaNFrac]]

\* lines 194-241: a bucket without rows is skipped (the 'range' text, a
\* formatting of sigma, is left out)
_analyze_std_buckets(data) ==
  [b \in {x \in Range(Labels) : Len(OfBucket(data, x)) > 0} |->
     LET bucket_data == OfBucket(data, b)
     IN  [total_hours |-> Len(bucket_data),
          unique_days |-> Cardinality(UniqueDates(bucket_data)),
          up_days |-> Cardinality(UniqueDates(OfDayType(bucket_data, "UP"))),
          down_days |-> Cardinality(UniqueDates(OfDayType(bucket_data, "DOWN"))),
          avg_hourly_return |-> mean(HourlyReturns(bucket_data)),
          median_hourly_return |-> median(HourlyReturns(bucket_data)),
          hourly_std |-> std(HourlyReturns(bucket_data)),
          positive_hours_pct |-> positive_pct(HourlyReturns(bucket_data)),
          hourly_breakdown |-> hourly_breakdown(bucket_data)]]

\* data.groupby('Date')['Daily_Return'].first()
daily_returns(data) ==
  [d \in UniqueDates(data) |->
     data[CHOOSE i \in 1..Len(data) :
            data[i].Date = d /\ \A j \in 1..(i - 1) : data[j].Date # d].Daily_Return.v]

\* len(daily_returns[np.abs(daily_returns) <= k * daily_std])
WithinSigmaSwapped(dr, k, s) ==
  Cardinality({d \in DOMAIN dr : LeqSigma(Abs(dr[d]), 4 - k, s)})
WithinSigma(dr, k, s) ==
  Cardinality({d \in DOMAIN dr : LeqSigma(Abs(dr[d]), k, s)})

\* count / len(daily_returns) * 100: the division raises ZeroDivisionError
\* when there is no date
coverage(dr, k, s) == Frac(100 * WithinSigma(dr, k, s), Cardinality(DOMAIN dr))

BellCurveRaises(data) == Cardinality(DOMAIN daily_returns(data)) = 0

\* lines 243-268 (the theoretical percentages and the differences to them
\* are left out)
_analyze_bell_curve(data, s) ==
  LET dr == daily_returns(data)
  IN  [sigma_1_actual |-> coverage(dr, 1, s),
       sigma_2_actual |-> coverage(dr, 2, s),
       sigma_3_actual |-> coverage(dr, 3, s),
       total_days |-> Cardinality(DOMAIN dr),
       daily_std |-> s]

\* lines 270-293: an hour without rows is left out (skewness and kurtosis
\* are left out)
_analyze_hourly_patterns(data) ==
  [k \in {hour_str(h) : h \in {x \in Hours : Len(OfHour(data, x)) > 0}} |->
     LET hour_data == HourlyReturns(OfHour(data, HourOf(k)))
     IN  [avg_return |-> mean(hour_data),
          median_return |-> median(hour_data),
          std_dev |-> std(hour_data),
          min_return |-> MinOf(hour_data),
          max_return |-> MaxOf(hour_data),
          positive_hours |-> Cardinality({i \in 1..Len(hour_data) : hour_data[i] > 0}),
          negative_hours |-> Cardinality({i \in 1..Len(hour_data) : hour_data[i] < 0}),
          positive_pct |-> positive_pct(hour_data),
          count |-> Len(hour_data)]]

\* a > b and a < b on standard deviations: False when either is NaN
StdGreater(a, b) == ~a.nan /\ ~b.nan /\ FracLess(b, a)

StdLess(a, b) == ~a.nan /\ ~b.nan /\ FracLess(a, b)

\* max(d, key=d.get) and min(d, key=d.get) over the hours in insertion order:
\* the first key is kept until a later key compares strictly better
RECURSIVE BestHour(_, _, _, _)
BestHour(hs, vol, best, largest) ==
  IF hs = <<>> THEN best
  ELSE BestHour(Tail(hs), vol,
                IF (largest /\ StdGreater(vol[Head(hs)], vol[best]))
                   \/ (~largest /\ StdLess(vol[Head(hs)], vol[best]))
                THEN Head(hs) ELSE best,
                largest)

\* lines 295-331 (volatility_range and hourly_vs_daily_ratio, differences
\* and quotients of square roots, are left out)
_generate_insights(data, s) ==
  LET hs == SelectSeq([i \in 1..(MarketCloseHour - MarketOpenHour + 1) |->
                         MarketOpenHour + i - 1],
                      LAMBDA h : Len(OfHour(data, h)) > 0)
      hourly_volatility == [h \in Range(hs) |-> std(HourlyReturns(OfHour(data, h)))]
      up_day_bias == mean(HourlyReturns(OfDayType(data, "UP")))
      down_day_bias == mean(HourlyReturns(OfDayType(data, "DOWN")))
      abs_hourly == [i \in 1..Len(data) |-> Abs(data[i].Hourly_Return.v)]
  IN  [most_volatile_hour |->
         hour_str(BestHour(Tail(hs), hourly_volatility, Head(hs), TRUE)),
       least_volatile_hour |->
         hour_str(BestHour(Tail(hs), hourly_volatility, Head(hs), FALSE)),
       up_day_hourly_bias |-> up_day_bias,
       down_day_hourly_bias |-> down_day_bias,
       bias_difference |-> FracMinus(up_day_bias, down_day_bias),
       avg_abs_hourly_move |-> mean(abs_hourly),
       median_abs_hourly_move |-> median(abs_hourly),
       small_moves_confirmed |-> 10 * SumSeq(abs_hourly) < Len(abs_hourly),
       daily_std_reference |-> s]

\* lines 135-160
analyze_steve_questions ==
  /\ pc = "merged"
  /\ IF BellCurveRaises(market_hours)
     THEN \* ZeroDivisionError in _analyze_bell_curve, which nothing catches
          /\ pc' = "analyze_raised"
          /\ error' = "ZeroDivisionError"
          /\ results' = results
     ELSE /\ pc' = "analyzed"
          /\ error' = error
          /\ results' =
               [none |-> FALSE,
                daily_std |-> daily_std,
                total_hours |-> Len(market_hours),
                up_days_count |->
                  Cardinality(UniqueDates(OfDayType(market_hours, "UP"))),
                down_days_count |->
                  Cardinality(UniqueDates(OfDayType(market_hours, "DOWN"))),
                hourly_up_down |-> _analyze_hourly_up_down(market_hours),
                std_bucket_analysis |-> _analyze_std_buckets(market_hours),
                bell_curve |-> _analyze_bell_curve(market_hours, daily_std),
                hourly_patterns |-> _analyze_hourly_patterns(market_hours),
                insights |-> _generate_insights(market_hours, daily_std)]
  /\ UNCHANGED <<daily_bars, hourly_bars, daily_data, hourly_data,
                 market_hours, daily_std, shown>>

\* ----------------------------------------------------------------- display
\* main() lines 597-600: with the results returned, st.success and
\* display_key_findings(results), which reads results['daily_std'],
\* results['total_hours'], results['bell_curve'] and results['insights']
display_key_findings ==
  /\ pc = "analyzed"
  /\ pc' = "displayed"
  /\ shown' = Append(shown, "findings")
  /\ UNCHANGED <<error, daily_bars, hourly_bars, daily_data, hourly_data,
                 market_hours, daily_std, results>>

\* results[view][f"{h}:00"] for h in range(9, 17): KeyError on a missing key
HourKeysPresent(view) == \A h \in Hours : hour_str(h) \in DOMAIN view

\* lines 363-393: the heatmap is drawn when some bucket is in the analysis
heatmap_data(res) ==
  SelectSeq(Labels, LAMBDA b : b \in DOMAIN res.std_bucket_analysis)

\* lines 333-440: the charts in the order they are drawn; chart 1 reads every
\* hour of results['hourly_up_down'], chart 4 every hour of
\* results['hourly_patterns'], and a KeyError ends the run with the charts
\* drawn so far
create_visualizations ==
  /\ pc = "displayed"
  /\ LET fig2 == IF heatmap_data(results) # <<>> THEN <<"fig2">> ELSE <<>>
     IN  IF ~HourKeysPresent(results.hourly_up_down)
         THEN /\ pc' = "visualize_raised"
              /\ error' = "KeyError"
              /\ shown' = shown
         ELSE IF ~HourKeysPresent(results.hourly_patterns)
         THEN /\ pc' = "visualize_raised"
              /\ error' = "KeyError"
              /\ shown' = shown \o <<"fig1">> \o fig2 \o <<"fig3">>
         ELSE /\ pc' = "visualized"
              /\ error' = error
              /\ shown' = shown \o <<"fig1">> \o fig2 \o <<"fig3", "fig4", "fig5">>
  /\ UNCHANGED <<daily_bars, hourly_bars, daily_data, hourly_data,
                 market_hours, daily_std, results>>

Next ==
  \/ fetch_comprehensive_data
  \/ FetchFailed
  \/ merge_and_classify_data
  \/ analyze_steve_questions
  \/ display_key_findings
  \/ create_visualizations

Spec == Init /\ [][Next]_vars

\* ------------------------------------------------------------------ claims
DailyDates == {daily_data.rows[i].Date : i \in 1..Len(daily_data.rows)}

\* merge_and_classify_data has returned
ClassifiedState == pc \in {"merged", "analyzed", "analyze_raised"}

\* the four intervals [0,s], (s,2s], (2s,3s], (3s,inf) on x >= 0, s = sqrt(num/den)
InInterval(l, x, s) ==
  CASE l = 1 -> x >= 0 /\ x * x * s.den <= s.num
    [] l = 2 -> x * x * s.den > s.num /\ x * x * s.den <= 4 * s.num
    [] l = 3 -> x * x * s.den > 4 * s.num /\ x * x * s.den <= 9 * s.num
    [] l = 4 -> x * x * s.den > 9 * s.num

RowsWellBucketed ==
  \A i \in 1..Len(market_hours) :
     LET x == Abs(market_hours[i].Daily_Return.v)
         b == market_hours[i].Std_Bucket
     IN  /\ Cardinality({l \in 1..4 : InInterval(l, x, daily_std)}) = 1
         /\ \A l \in 1..4 : (b = Labels[l]) <=> InInterval(l, x, daily_std)
         /\ \A k \in 1..3 :
              x * x * daily_std.den = k * k * daily_std.num => b = Labels[k]

\* C1: for every daily history with at least 2 daily returns, once
\* merge_and_classify_data has been called every classified day is in exactly
\* one of the four buckets, the one whose interval [0,s], (s,2s], (2s,3s],
\* (3s,inf) holds |daily_return|, a value on s, 2s or 3s being in the lower one.
C1_BucketsPartitionDays ==
  (pc \in {"merged", "analyzed", "analyze_raised", "merge_raised"}
   /\ Len(daily_data.rows) >= 2)
  => /\ pc # "merge_raised"
     /\ daily_std = std(DailyReturns(daily_data.rows))
     /\ RowsWellBucketed

\* C1, the part the code keeps: whenever the classification is returned, the
\* buckets are the four intervals
C1_PartitionWhenReturned == ClassifiedState => RowsWellBucketed

C1_BoundaryDaysReached ==
  /\ ClassifiedState
  /\ \E i \in 1..Len(market_hours) :
       LET x == Abs(market_hours[i].Daily_Return.v)
       IN  x > 0 /\ x * x * daily_std.den = 9 * daily_std.num

\* C2: up_days_count + down_days_count is the number of distinct dates of the
\* classified observations, each date counted as UP or as DOWN and not both.
C2_UpPlusDownIsDates ==
  pc = "analyzed"
  => /\ results.up_days_count + results.down_days_count
          = Cardinality(UniqueDates(market_hours))
     /\ \A d \in UniqueDates(market_hours) :
          (\E i \in 1..Len(market_hours) :
              market_hours[i].Date = d /\ market_hours[i].Day_Type = "UP")
          # (\E i \in 1..Len(market_hours) :
              market_hours[i].Date = d /\ market_hours[i].Day_Type = "DOWN")

C2_UpAndDownDaysCounted ==
  /\ pc = "analyzed"
  /\ results.up_days_count >= 1
  /\ results.down_days_count >= 1
  /\ results.total_hours = 2

\* the sentinel of the specification: neither NaN nor the number zero
UndefinedStatistic == [nan |-> FALSE, num |-> 0, den |-> 0]

\* C3: a group without observations is reported with count 0 and with mean,
\* median and standard deviation equal to the undefined sentinel, in the
\* hourly-by-direction view, the bucket analysis with its hourly breakdown
\* and the overall hourly pattern.
C3_EmptyGroupsUndefined ==
  pc = "analyzed"
  => /\ \A h \in 9..16 :
          LET k == hour_str(h)
              hud == results.hourly_up_down
              hp == results.hourly_patterns
          IN  /\ Len(OfHour(OfDayType(market_hours, "UP"), h)) = 0
                 => /\ k \in DOMAIN hud
                    /\ hud[k].up_day_count = 0
                    /\ hud[k].up_day_avg = UndefinedStatistic
                    /\ hud[k].up_day_median = UndefinedStatistic
                    /\ hud[k].up_day_std = UndefinedStatistic
              /\ Len(OfHour(OfDayType(market_hours, "DOWN"), h)) = 0
                 => /\ k \in DOMAIN hud
                    /\ hud[k].down_day_count = 0
                    /\ hud[k].down_day_avg = UndefinedStatistic
                    /\ hud[k].down_day_median = UndefinedStatistic
                    /\ hud[k].down_day_std = UndefinedStatistic
              /\ Len(OfHour(market_hours, h)) = 0
                 => /\ k \in DOMAIN hp
                    /\ hp[k].count = 0
                    /\ hp[k].avg_return = UndefinedStatistic
                    /\ hp[k].median_return = UndefinedStatistic
                    /\ hp[k].std_dev = UndefinedStatistic
     /\ \A b \in Range(Labels) :
          LET sba == results.std_bucket_analysis
          IN  /\ Len(OfBucket(market_hours, b)) = 0
                 => /\ b \in DOMAIN sba
                    /\ sba[b].total_hours = 0
                    /\ sba[b].avg_hourly_return = UndefinedStatistic
                    /\ sba[b].median_hourly_return = UndefinedStatistic
                    /\ sba[b].hourly_std = UndefinedStatistic
              /\ \A h \in 9..16 :
                   (b \in DOMAIN sba /\ Len(OfHour(OfBucket(market_hours, b), h)) = 0)
                   => /\ hour_str(h) \in DOMAIN sba[b].hourly_breakdown
                      /\ sba[b].hourly_breakdown[hour_str(h)].count = 0
                      /\ sba[b].hourly_breakdown[hour_str(h)].avg_return
                           = UndefinedStatistic

\* C4: when no date reaches the bell-curve validator, _analyze_bell_curve
\* fails with InsufficientDataError and no coverage record is returned.
C4_EmptyBellCurveInsufficientData ==
  (pc \in {"analyzed", "analyze_raised"} /\ UniqueDates(market_hours) = {})
  => /\ pc = "analyze_raised"
     /\ results.none
     /\ error = "InsufficientDataError"

\* C5: a series of fewer than 2 price bars makes the run fail (any reported
\* failure that withholds the frames is accepted as the InsufficientDataError);
\* no empty or defaulted return sequence is handed on.
C5_TooFewBarsFails ==
  (pc # "idle" /\ (Len(daily_bars) < 2 \/ Len(hourly_bars) < 2))
  => /\ daily_data.none \/ hourly_data.none
     /\ error # ""

\* C6: sigma is the sample standard deviation of the whole daily history, and
\* with fewer than 2 daily returns the run ends in a reported failure without
\* merge_and_classify_data, the classification, being entered.
C6_UndefinedSigmaFails ==
  /\ ClassifiedState => daily_std = std(DailyReturns(daily_data.rows))
  /\ (pc # "idle" /\ ~daily_data.none /\ Len(daily_data.rows) < 2)
     => pc \in {"fetched", "failed"}

FracLeq(a, b) == a.num * b.den <= b.num * a.den

\* the daily return of the daily observation on date d
DailyReturnOn(d) ==
  daily_data.rows[CHOOSE i \in 1..Len(daily_data.rows) :
                    daily_data.rows[i].Date = d].Daily_Return.v

\* C7: coverage_k = 100 * |{d : |d| <= k * sigma}| / N over the distinct
\* classified dates, and coverage_1 <= coverage_2 <= coverage_3.
C7_CoverageMonotone ==
  pc = "analyzed"
  => LET bc == results.bell_curve
         dates == UniqueDates(market_hours)
         within(k) ==
           Cardinality({d \in dates :
              DailyReturnOn(d) * DailyReturnOn(d) * daily_std.den
                <= k * k * daily_std.num})
     IN  /\ bc.total_days = Cardinality(dates)
         /\ bc.total_days >= 1
         /\ bc.sigma_1_actual = Frac(100 * within(1), bc.total_days)
         /\ bc.sigma_2_actual = Frac(100 * within(2), bc.total_days)
         /\ bc.sigma_3_actual = Frac(100 * within(3), bc.total_days)
         /\ FracLeq(bc.sigma_1_actual, bc.sigma_2_actual)
         /\ FracLeq(bc.sigma_2_actual, bc.sigma_3_actual)

C7_CoverageGrows ==
  /\ pc = "analyzed"
  /\ results.bell_curve.total_days = 2
  /\ FracLess(results.bell_curve.sigma_1_actual, results.bell_curve.sigma_2_actual)

\* the hourly rows the joiner must keep
Kept(h) ==
  /\ ~h.Hourly_Return.nan
  /\ h.Date \in DailyDates
  /\ 9 <= h.Hour /\ h.Hour <= 16

\* C8: the joiner output holds an hourly observation exactly when its return
\* is defined, its date has a daily observation and 9 <= hour <= 16; bars at
\* hours 8 and 17 never appear, bars at hours 9 and 16 are kept.
C8_JoinerKeepsExactly ==
  ClassifiedState
  => /\ {<<market_hours[i].Date, market_hours[i].Hour>> : i \in 1..Len(market_hours)}
          = {<<hourly_data.rows[i].Date, hourly_data.rows[i].Hour>> :
               i \in {j \in 1..Len(hourly_data.rows) : Kept(hourly_data.rows[j])}}
     /\ Len(market_hours)
          = Cardinality({j \in 1..Len(hourly_data.rows) : Kept(hourly_data.rows[j])})
     /\ \A i \in 1..Len(market_hours) : market_hours[i].Hour \notin {8, 17}

C8_BoundaryKeptOutsideDropped ==
  /\ ClassifiedState
  /\ \E i \in 1..Len(hourly_data.rows) :
       /\ hourly_data.rows[i].Hour \in {8, 17}
       /\ ~hourly_data.rows[i].Hourly_Return.nan
       /\ hourly_data.rows[i].Date \in DailyDates
  /\ \E i \in 1..Len(market_hours) : market_hours[i].Hour \in {9, 16}

\* C9: the retained daily observations are the bars after the first, each
\* labelled UP exactly when its return is >= 0 and DOWN otherwise; returns of
\* signs + - + - + are labelled UP DOWN UP DOWN UP, 3 UP days and 2 DOWN days.
C9_DirectionLabels ==
  (pc # "idle" /\ ~daily_data.none)
  => LET rows == daily_data.rows
         ups == {i \in 1..Len(rows) : rows[i].Day_Type = "UP"}
         downs == {i \in 1..Len(rows) : rows[i].Day_Type = "DOWN"}
     IN  /\ Len(rows) = Len(daily_bars) - 1
         /\ \A i \in 1..Len(rows) :
              /\ rows[i].Date = i + 1
              /\ rows[i].Close = daily_bars[i + 1]
              /\ ~rows[i].Daily_Return.nan
              /\ rows[i].Daily_Return.v * daily_bars[i]
                   = 100 * (daily_bars[i + 1] - daily_bars[i])
              /\ (rows[i].Day_Type = "UP") <=> (rows[i].Daily_Return.v >= 0)
              /\ (rows[i].Day_Type = "DOWN") <=> (rows[i].Daily_Return.v < 0)
         /\ (/\ Len(rows) = 5
             /\ \A i \in 1..5 : IF i % 2 = 1 THEN rows[i].Daily_Return.v > 0
                                ELSE rows[i].Daily_Return.v < 0)
            => /\ [i \in 1..5 |-> rows[i].Day_Type]
                    = <<"UP", "DOWN", "UP", "DOWN", "UP">>
               /\ Cardinality(ups) = 3
               /\ Cardinality(downs) = 2

C9_AlternatingDays ==
  /\ pc # "idle"
  /\ ~daily_data.none
  /\ DailyReturns(daily_data.rows) = <<100, -50, 100, -50, 100>>
  /\ Len(daily_bars) = 6

MatchedOnly(hrows) == SelectSeq(hrows, LAMBDA h : h.Date \in DailyDates)

\* C10: an hourly observation whose date has no daily observation is not in
\* the joiner output, the output is the one obtained without it, and
\* merge_and_classify_data raises only for a sigma that is zero or undefined.
C10_UnmatchedDropped ==
  /\ ClassifiedState
     => /\ \A i \in 1..Len(market_hours) : market_hours[i].Date \in DailyDates
        /\ market_hours
             = Classified(Joined(daily_data.rows, MatchedOnly(hourly_data.rows)),
                          daily_std)
  /\ pc = "merge_raised" => ~BinEdgesUnique(std(DailyReturns(daily_data.rows)))

C10_UnmatchedObservationSeen ==
  /\ pc = "merged"
  /\ error = ""
  /\ Len(market_hours) >= 1
  /\ \E i \in 1..Len(hourly_data.rows) :
       /\ hourly_data.rows[i].Date \notin DailyDates
       /\ ~hourly_data.rows[i].Hourly_Return.nan
       /\ hourly_data.rows[i].Hour \in 9..16

\* the daily observation of date d
DailyRowOn(d) ==
  daily_data.rows[CHOOSE i \in 1..Len(daily_data.rows) : daily_data.rows[i].Date = d]

\* C11: every record output by merge_and_classify_data has a direction, a
\* daily return and a bucket that are not null; they are those of the one
\* daily observation of the record's date, the bucket being the interval of
\* that day's |daily_return|, so two records of one date carry the same
\* direction and bucket whatever their hourly returns are.
C11_RecordsCarryDailyValues ==
  ClassifiedState
  => /\ \A i \in 1..Len(market_hours) :
          LET r == market_hours[i]
          IN  /\ r.Day_Type \in {"UP", "DOWN"}
              /\ ~r.Daily_Return.nan
              /\ r.Std_Bucket \in Range(Labels)
              /\ Cardinality({j \in 1..Len(daily_data.rows) :
                                daily_data.rows[j].Date = r.Date}) = 1
              /\ r.Day_Type = DailyRowOn(r.Date).Day_Type
              /\ r.Daily_Return = DailyRowOn(r.Date).Daily_Return
              /\ \A l \in 1..4 :
                   (r.Std_Bucket = Labels[l])
                   <=> InInterval(l, Abs(DailyRowOn(r.Date).Daily_Return.v), daily_std)
     /\ \A i, j \in 1..Len(market_hours) :
          market_hours[i].Date = market_hours[j].Date
          => /\ market_hours[i].Day_Type = market_hours[j].Day_Type
             /\ market_hours[i].Std_Bucket = market_hours[j].Std_Bucket

\* two records of one date whose own hourly returns lie in different intervals
C11_SameDateDifferentHourlyReturns ==
  /\ ClassifiedState
  /\ \E i, j \in 1..Len(market_hours) :
       /\ market_hours[i].Date = market_hours[j].Date
       /\ market_hours[i].Hourly_Return # market_hours[j].Hourly_Return
       /\ InInterval(1, Abs(market_hours[i].Hourly_Return.v), daily_std)
       /\ ~InInterval(1, Abs(market_hours[j].Hourly_Return.v), daily_std)

\* the five aggregate views computed from the classified observations
FiveViews ==
  /\ ~results.none
  /\ results.hourly_up_down = _analyze_hourly_up_down(market_hours)
  /\ results.std_bucket_analysis = _analyze_std_buckets(market_hours)
  /\ results.bell_curve = _analyze_bell_curve(market_hours, daily_std)
  /\ results.hourly_patterns = _analyze_hourly_patterns(market_hours)
  /\ results.insights = _generate_insights(market_hours, daily_std)

\* C12: when the daily fetch or the intraday fetch fails (a download raising
\* included) or sigma is undefined, the run is aborted with nothing returned
\* by analyze_steve_questions and nothing displayed; every run that ends in a
\* failure before the display has returned and displayed nothing; findings
\* are displayed first and only with all five views computed.
C12_FailureAbortsRun ==
  /\ (pc # "idle"
      /\ (daily_data.none \/ hourly_data.none
          \/ std(DailyReturns(daily_data.rows)).nan))
     => /\ pc \in {"fetched", "failed", "merge_raised"}
        /\ results.none
        /\ shown = <<>>
  /\ pc \in {"failed", "merge_raised", "analyze_raised"}
     => results.none /\ shown = <<>> /\ error # ""
  /\ ~results.none
     => pc \in {"analyzed", "displayed", "visualized", "visualize_raised"}
  /\ shown # <<>>
     => /\ Head(shown) = "findings"
        /\ FiveViews
        /\ ~daily_data.none /\ ~hourly_data.none
        /\ BinEdgesUnique(daily_std)

\* the intraday fetch failed after the daily fetch succeeded
C12_IntradayFetchFailed ==
  /\ pc = "failed"
  /\ ~daily_data.none
  /\ Len(daily_data.rows) >= 2
  /\ hourly_data.none

\* sigma is undefined and the run ended in merge_and_classify_data
C12_SigmaFailureAborted ==
  /\ pc = "merge_raised"
  /\ std(DailyReturns(daily_data.rows)).nan
  /\ Len(hourly_data.rows) >= 2

\* the findings are on display
C12_FindingsDisplayed ==
  /\ pc = "displayed"
  /\ shown = <<"findings">>
  /\ FiveViews

\* the hours with classified observations, the standard deviation of their
\* hourly returns, and the hours where it is defined
ObservedHours == {h \in 9..16 : Len(OfHour(market_hours, h)) > 0}

HourStd(h) == std(HourlyReturns(OfHour(market_hours, h)))

DefinedHours == {h \in ObservedHours : ~HourStd(h).nan}

Earliest(hs) == CHOOSE h \in hs : \A g \in hs : h <= g

\* the earliest of the hours with the largest, and with the smallest,
\* standard deviation
MostVolatile ==
  Earliest({h \in DefinedHours :
              \A g \in DefinedHours : ~FracLess(HourStd(h), HourStd(g))})

LeastVolatile ==
  Earliest({h \in DefinedHours :
              \A g \in DefinedHours : ~FracLess(HourStd(g), HourStd(h))})

\* C13: most_volatile_hour is the hour of 9..16 with the largest standard
\* deviation of hourly return among the hours with observations and
\* least_volatile_hour the one with the smallest, the earliest hour winning a
\* tie (an hour is only required to have observations when no hour has a
\* standard deviation).
C13_VolatileHours ==
  pc = "analyzed"
  => IF DefinedHours # {}
     THEN /\ results.insights.most_volatile_hour = hour_str(MostVolatile)
          /\ results.insights.least_volatile_hour = hour_str(LeastVolatile)
     ELSE /\ results.insights.most_volatile_hour \in {hour_str(h) : h \in ObservedHours}
          /\ results.insights.least_volatile_hour \in {hour_str(h) : h \in ObservedHours}

\* C13, the part the code keeps: when the first hour with observations has a
\* standard deviation, the reported hours are the claimed ones
C13_WhenFirstHourDefined ==
  (pc = "analyzed" /\ ObservedHours # {} /\ Earliest(ObservedHours) \in DefinedHours)
  => /\ results.insights.most_volatile_hour = hour_str(MostVolatile)
     /\ results.insights.least_volatile_hour = hour_str(LeastVolatile)

\* two hours with different returns tie
C13_TieReached ==
  /\ pc = "analyzed"
  /\ DefinedHours = {9, 16}
  /\ HourlyReturns(OfHour(market_hours, 9)) # HourlyReturns(OfHour(market_hours, 16))
  /\ results.insights.most_volatile_hour = "9:00"
  /\ results.insights.least_volatile_hour = "9:00"
  /\ ~FracLess(HourStd(9), HourStd(16)) /\ ~FracLess(HourStd(16), HourStd(9))

\* the later hour is the more volatile one
C13_LaterHourWins ==
  /\ pc = "analyzed"
  /\ DefinedHours = {9, 16}
  /\ FracLess(HourStd(9), HourStd(16))
  /\ results.insights.most_volatile_hour = "16:00"
  /\ results.insights.least_volatile_hour = "9:00"

\* the sum of unique_days over the k lowest buckets of a bucket report, a
\* bucket that is not in the report counting as 0
UniqueDaysBelow(sba, k) ==
  SumSeq([l \in 1..k |->
            IF Labels[l] \in DOMAIN sba THEN sba[Labels[l]].unique_days ELSE 0])

\* C14: on the same classified data, for k = 1, 2, 3 the number of dates that
\* _analyze_bell_curve counts within k sigma (its coverage is 100 times that
\* number over total_days) is the sum of unique_days over the k lowest buckets
\* of _analyze_std_buckets, and the sum over the four buckets is total_days.
C14_BucketsAgreeWithBellCurve ==
  pc = "analyzed"
  => LET sba == results.std_bucket_analysis
         bc == results.bell_curve
     IN  /\ bc.sigma_1_actual = Frac(100 * UniqueDaysBelow(sba, 1), bc.total_days)
         /\ bc.sigma_2_actual = Frac(100 * UniqueDaysBelow(sba, 2), bc.total_days)
         /\ bc.sigma_3_actual = Frac(100 * UniqueDaysBelow(sba, 3), bc.total_days)
         /\ UniqueDaysBelow(sba, 4) = bc.total_days
         /\ \A k \in 1..3 :
              UniqueDaysBelow(sba, k)
                = Cardinality({d \in UniqueDates(market_hours) :
                     DailyReturnOn(d) * DailyReturnOn(d) * daily_std.den
                       <= k * k * daily_std.num})

\* a classified day lies exactly on sigma, 2 sigma or 3 sigma
C14_BoundaryDayCounted ==
  /\ pc = "analyzed"
  /\ results.bell_curve.total_days = 2
  /\ \E i \in 1..Len(market_hours) : \E k \in 1..3 :
       LET x == Abs(market_hours[i].Daily_Return.v)
       IN  x > 0 /\ x * x * daily_std.den = k * k * daily_std.num

\* the classified days are in two buckets, and some bucket is not reported
C14_TwoBucketsReported ==
  /\ pc = "analyzed"
  /\ Cardinality(DOMAIN results.std_bucket_analysis) = 2
  /\ UniqueDaysBelow(results.std_bucket_analysis, 1) = 1
  /\ results.bell_curve.total_days = 2

\* analyze_steve_questions has returned its result
ResultProduced == pc \in {"analyzed", "displayed", "visualized", "visualize_raised"}

\* C15: in every result of analyze_steve_questions the keys "9:00" to "16:00"
\* that create_visualizations reads are in results['hourly_up_down'] and in
\* results['hourly_patterns'], so the rendering never fails on a missing
\* hour, also when an hour of 9..16 has no classified observation.
C15_HourKeysPresent ==
  ResultProduced
  => /\ \A h \in 9..16 : hour_str(h) \in DOMAIN results.hourly_up_down
     /\ \A h \in 9..16 : hour_str(h) \in DOMAIN results.hourly_patterns
     /\ pc # "visualize_raised"

\* C15, the part the code keeps: the hourly-by-direction view has every hour,
\* the hourly pattern view has exactly the hours with observations, and the
\* rendering fails exactly when some hour has none
C15_KeysOfObservedHours ==
  ResultProduced
  => /\ \A h \in 9..16 : hour_str(h) \in DOMAIN results.hourly_up_down
     /\ DOMAIN results.hourly_patterns = {hour_str(h) : h \in ObservedHours}
     /\ (pc = "visualize_raised") => (ObservedHours # 9..16 /\ error = "KeyError")
     /\ (pc = "visualized") => ObservedHours = 9..16

\* every hour has an observation and all five charts are drawn
C15_AllChartsDrawn ==
  /\ pc = "visualized"
  /\ shown = <<"findings", "fig1", "fig2", "fig3", "fig4", "fig5">>

====
